---- MODULE Spec2Model ----
(***************************************************************************)
(* Model of the virals video/transcript application.                       *)
(*                                                                         *)
(*  SpecSync  : the client side - VideoPlayerWithTranscript, the           *)
(*              InteractiveVideoPlayer handle and the InteractiveTranscript *)
(*              debounce effect.                                            *)
(*  SpecStore : the server side - the project and video server actions,    *)
(*              transcribeVideo and the Deepgram webhook.                   *)
(*                                                                         *)
(* Media time is counted in whole units 0..MaxTime; wall-clock time is     *)
(* counted in milliseconds and advances TickMs at a time.                  *)
(***************************************************************************)
EXTENDS Integers, Sequences, FiniteSets, TLC

\* ------------------------------------------------------------------ bounds
MaxTime == 2
MaxWords == 2
TickMs == 25
MaxLateMs == 25
MaxProjects == 2
MaxVideos == 1
MaxRequests == 2
MaxUploads == 1

\* word confidences are counted in hundredths: 0 .. MaxConfidence
MaxConfidence == 100

\* ------------------------------------------------------- program constants
DebounceMs == 50
MaxPathLen == 500

VARIABLES
  transcriptData,     \* prop of InteractiveTranscript (tagged JSON value)
  highlightCurrentWord, \* prop of InteractiveTranscript
  currentTime,        \* state of VideoPlayerWithTranscript
  currentWordIndex,   \* state of InteractiveTranscript
  timers,             \* pending setTimeout callbacks of the debounce effect
  videoTime,          \* HTMLVideoElement.currentTime
  paused,             \* HTMLVideoElement.paused
  playerError,        \* InteractiveVideoPlayer error state (no video element)
  firedAgo,           \* ms since the notification behind the last recomputation
  last,               \* the operation performed by the latest step
  mounted,            \* InteractiveTranscript is mounted
  badge,              \* the confidence badge rendered last
  tm,                 \* TranscriptManager: props and state
  ef,                 \* VideoEditForm: props and state
  uf,                 \* VideoUploadForm: the file upload in progress
  projects,           \* rows of the projects table
  videos,             \* rows of the videos table
  storage,            \* object paths in the "videos" storage bucket
  ids,                \* number of project ids, video ids, request ids and
                      \* upload names issued
  tv,                 \* the transcribeVideo call in flight
  res                 \* result of the latest server action or webhook

syncVars == <<transcriptData, highlightCurrentWord, currentTime,
              currentWordIndex, timers, videoTime, paused, playerError,
              firedAgo, last, mounted, badge>>

formVars == <<tm, ef, uf>>

storeVars == <<projects, videos, storage, ids, tv, res>>

\* what a step of the player leaves alone, and what a server action does
nonSync == <<formVars, storeVars>>

nonStore == <<syncVars, formVars>>

vars == <<syncVars, formVars, storeVars>>

\* ---------------------------------------------------------------- helpers
Min(a, b) == IF a < b THEN a ELSE b

Duration == MaxTime

Times == 0..MaxTime

AllWords == {[start |-> s, end |-> e] : s \in Times, e \in Times}

ValidWords == {w \in AllWords : w.start < w.end}

SortedByStart(ws) ==
  \A i \in 1..Len(ws) : \A j \in 1..Len(ws) :
    i < j => ws[i].start <= ws[j].start

WordLists ==
  {ws \in UNION {[1..n -> ValidWords] : n \in 0..MaxWords} : SortedByStart(ws)}

ArrayData(ws) == [tag |-> "array", arr |-> ws]

StringData == [tag |-> "string", arr |-> <<>>]

NullData == [tag |-> "null", arr |-> <<>>]

ObjectData == [tag |-> "object", arr |-> <<>>]

\* array elements that are no Word: null, and an object without start and
\* end
NullElement == [isNull |-> TRUE]

Fieldless == [word |-> "x"]

IsNullElement(w) == "isNull" \in DOMAIN w

HasTimes(w) == {"start", "end"} \subseteq DOMAIN w

TranscriptValues == {ArrayData(ws) : ws \in WordLists} \cup {StringData}

\* one well-formed word next to the elements that are no Word
SampleWord == [start |-> 0, end |-> 1]

Elements == {SampleWord, NullElement, Fieldless}

IsWord(w) == ~IsNullElement(w) /\ HasTimes(w)

\* non-empty arrays with at least one element that is no Word
MalformedLists ==
  {ws \in UNION {[1..n -> Elements] : n \in 1..MaxWords} :
     \E i \in 1..Len(ws) : ~IsWord(ws[i])}

NonArrayValues == {StringData, NullData, ObjectData}

DegradedValues ==
  NonArrayValues \cup {ArrayData(<<>>)}
    \cup {ArrayData(ws) : ws \in MalformedLists}

\* useMemo: the words array extracted from transcriptData
Words(data) ==
  IF data.tag # "array" \/ Len(data.arr) = 0 THEN <<>> ELSE data.arr

words == Words(transcriptData)

\* Array.prototype.findIndex with the predicate of the debounce callback
\* the predicate reads word.start of null: a TypeError leaves the callback
Throws == -2

\* a comparison with undefined is false
RECURSIVE FindFrom(_, _, _)
FindFrom(ws, t, i) ==
  IF i > Len(ws) THEN -1
  ELSE IF IsNullElement(ws[i]) THEN Throws
  ELSE IF HasTimes(ws[i]) /\ t >= ws[i].start /\ t <= ws[i].end THEN i - 1
  ELSE FindFrom(ws, t, i + 1)

FindIndexLast(ws, t) ==
  LET hits == {i \in 1..Len(ws) : t >= ws[i].start /\ t <= ws[i].end}
  IN IF hits = {} THEN -1 ELSE (CHOOSE i \in hits : \A j \in hits : j <= i) - 1

FindIndex(ws, t) == FindFrom(ws, t, 1)

NoOp ==
  [op |-> "init", arg |-> -1, ws |-> <<>>, t |-> -1, wasPaused |-> FALSE,
   merged |-> FALSE, threw |-> FALSE]

Op(name, arg, ws, t) ==
  [op |-> name, arg |-> arg, ws |-> ws, t |-> t, wasPaused |-> paused,
   merged |-> FALSE, threw |-> FALSE]

AgeCap == DebounceMs + MaxLateMs

NeverFired == -1

FiredCap == AgeCap + DebounceMs

\* --------------------------------------------------- InteractiveTranscript
\* a pending callback with the values its closure captured; merged records
\* that scheduling it replaced a timer that was not yet due
Timer(ct, ws) ==
  [t |-> ct, ws |-> ws, age |-> 0,
   merged |-> \E T \in timers : T.age < DebounceMs]

\* cleanup of the previous run of the effect: clearTimeout(timeoutId)
KeepPendingTimers(ts) == ts

\* a cleanup that misses the timers already due
KeepDueTimers(ts) == {T \in ts : T.age >= DebounceMs}

EffectCleanup(ts) == {}

\* the effect never returns early for an empty word list
SyncEffectNoEarlyReturn(ws, ct) ==
  /\ timers' = EffectCleanup(timers) \cup {Timer(ct, ws)}
  /\ UNCHANGED currentWordIndex

\* an effect that keeps a pending timer instead of replacing it
SyncEffectThrottle(ws, ct) ==
  IF ~highlightCurrentWord \/ Len(ws) = 0
  THEN /\ timers' = EffectCleanup(timers)
       /\ currentWordIndex' = -1
  ELSE /\ timers' = IF timers = {} THEN {Timer(ct, ws)} ELSE timers
       /\ UNCHANGED currentWordIndex

\* body of the debounce effect, run when currentTime, words or
\* highlightCurrentWord changed
SyncEffect(ws, ct) ==
  IF ~highlightCurrentWord \/ Len(ws) = 0
  THEN /\ timers' = EffectCleanup(timers)
       /\ currentWordIndex' = -1
  ELSE /\ timers' = EffectCleanup(timers) \cup {Timer(ct, ws)}
       /\ UNCHANGED currentWordIndex

HandleWordClickEnd(w) == w.end

\* InteractiveTranscript.handleWordClick: the argument passed to onWordClick
HandleWordClick(w) == w.start

\* what InteractiveTranscript renders: the fallback card, the transcript,
\* or nothing because words.map reads a property of null
RenderNoFallback(ws) ==
  IF \E i \in 1..Len(ws) : IsNullElement(ws[i]) THEN "throws"
  ELSE "transcript"

Render(ws) ==
  IF Len(ws) = 0 THEN "No interactive transcript available"
  ELSE IF \E i \in 1..Len(ws) : IsNullElement(ws[i]) THEN "throws"
  ELSE "transcript"

\* thresholds of the confidence classifiers, in hundredths
GreenMin == 70

YellowMin == 70

HighMin == 90

MediumMin == 70

Confidences == 0..MaxConfidence

GetConfidenceColor(confidence) ==
  IF confidence >= GreenMin THEN "text-green-600"
  ELSE IF confidence >= YellowMin THEN "text-yellow-600"
  ELSE "text-red-600"

GetConfidenceBadge(confidence) ==
  IF confidence >= HighMin THEN "High"
  ELSE IF confidence >= MediumMin THEN "Medium"
  ELSE "Low"

\* the confidence badge of one word, rendered when showConfidence is set
RenderBadge(confidence) ==
  /\ mounted
  /\ badge' = [confidence |-> confidence,
               color |-> GetConfidenceColor(confidence),
               label |-> GetConfidenceBadge(confidence)]
  /\ last' = Op("badge", confidence, <<>>, -1)
  /\ UNCHANGED <<transcriptData, highlightCurrentWord, mounted, currentTime,
                 currentWordIndex, videoTime, paused, playerError, timers,
                 firedAgo>>

\* ------------------------------------------------ VideoPlayerWithTranscript
\* setCurrentTime followed by the re-render; the effect only runs when the
\* dependency changed
SetCurrentTime(newTime) ==
  /\ currentTime' = newTime
  /\ IF newTime = currentTime
     THEN UNCHANGED <<timers, currentWordIndex>>
     ELSE SyncEffect(words, newTime)

\* ---------------------------------------------------- InteractiveVideoPlayer
\* assignment to HTMLMediaElement.currentTime: positions past the end of the
\* media are clamped to the end
SeekPosition(time) == Min(time, Duration)

SeekToAndPlay(time) ==
  IF ~playerError
  THEN /\ videoTime' = SeekPosition(time)
       /\ paused' = FALSE
       /\ SetCurrentTime(time)
  ELSE UNCHANGED <<videoTime, paused, currentTime, timers, currentWordIndex>>

\* the seekTo method of the imperative handle, with the onSeek callback
SeekTo(time) ==
  IF ~playerError
  THEN /\ videoTime' = SeekPosition(time)
       /\ paused' = paused
       /\ SetCurrentTime(time)
  ELSE UNCHANGED <<videoTime, paused, currentTime, timers, currentWordIndex>>

\* ------------------------------------------------------------ record store
Users == {"u1", "u2"}

NoUser == "anon"

Callers == Users \cup {NoUser}

\* supabase.auth.getUser(): a user object exists for the caller
Authenticated(c) == c \in Users

Null == "null"

Undefined == "undefined"

NullId == 0

UndefinedId == -1

InvalidId == -2

StatusValues == {"uploaded", "transcribing", "transcribed", "error"}

Titles == {"t1", "t2"}

Paths == {"a", "b"}

TranscriptTexts == {"T1"}

WordArrays == {"W1"}

ProjectIds == 1..MaxProjects

VideoIds == 1..MaxVideos

RequestIds == 1..MaxRequests

\* a request id the provider never issued
ForgedId == MaxRequests + 1

\* z.uuid()
IsUuid(id) == id # InvalidId

\* length of a storage path
PathLen(path) ==
  IF path = "" THEN 0 ELSE IF path = "long" THEN MaxPathLen + 1 ELSE 1

\* z.string().min(1).max(500)
ValidPath(path) == PathLen(path) >= 1 /\ PathLen(path) <= MaxPathLen

\* JSON.stringify drops a key whose value is undefined: the column keeps
\* its value
SetColumn(old, new) == IF new = Undefined THEN old ELSE new

SetIdColumn(old, new) == IF new = UndefinedId THEN old ELSE new

\* .eq("deepgram_request_id", requestId): a NULL column matches nothing
MatchesRequest(v, requestId) ==
  v.deepgram_request_id # NullId /\ v.deepgram_request_id = requestId

Owner(pid) ==
  IF \E p \in projects : p.id = pid
  THEN (CHOOSE p \in projects : p.id = pid).user_id
  ELSE NoUser

\* projects!inner(user_id) with .eq("projects.user_id", user)
OwnsVideo(c, v) == Authenticated(c) /\ Owner(v.project_id) = c

\* the ActionResult (or Response) of a call, with the action, its caller
\* and the number of storage.remove calls it made
Result(op, c, ok, error, ret) ==
  [op |-> op, caller |-> c, ok |-> ok, error |-> error, ret |-> ret,
   status |-> 0, rid |-> NullId, removes |-> 0, void |-> FALSE]

\* the return of an action of type Promise<void>: the caller gets undefined
Void(op, c) == [Result(op, c, FALSE, "", {}) EXCEPT !.void = TRUE]

IdleCall == [pc |-> "idle", user |-> NoUser, path |-> "", rid |-> NullId]

StoreInit ==
  /\ projects = {}
  /\ videos = {}
  /\ storage = {}
  /\ ids = [p |-> 0, v |-> 0, r |-> 0, u |-> 0]
  /\ tv = IdleCall
  /\ res = Result("init", NoUser, TRUE, "", {})

\* no form is mounted
NoForm == [open |-> FALSE]

NoUpload ==
  [pc |-> "idle", user |-> NoUser, pid |-> NullId, path |-> "",
   created |-> FALSE, called |-> FALSE, error |-> ""]

FormsClosed == tm = NoForm /\ ef = NoForm /\ uf = NoUpload

\* ------------------------------------------------------------ client steps
\* no confidence badge is rendered: showConfidence is false
NoBadge == [confidence |-> -1, color |-> "", label |-> ""]

\* the client after mounting VideoPlayerWithTranscript with given props
ClientInit(data, highlight) ==
  /\ transcriptData = data
  /\ highlightCurrentWord = highlight
  /\ currentTime = 0
  /\ currentWordIndex = -1
  /\ timers = IF ~highlightCurrentWord \/ Len(words) = 0
              THEN {}
              ELSE {[t |-> 0, ws |-> words, age |-> 0, merged |-> FALSE]}
  /\ videoTime = 0
  /\ paused = TRUE
  /\ playerError = FALSE
  /\ firedAgo = NeverFired
  /\ last = NoOp
  /\ mounted = TRUE
  /\ badge = NoBadge

InitSync ==
  /\ \E d \in TranscriptValues : \E h \in BOOLEAN : ClientInit(d, h)
  /\ StoreInit
  /\ FormsClosed

\* the video element advances while playing
Playback ==
  /\ mounted
  /\ ~playerError
  /\ ~paused
  /\ videoTime < Duration
  /\ videoTime' = videoTime + 1
  /\ last' = Op("playback", -1, <<>>, -1)
  /\ UNCHANGED <<transcriptData, highlightCurrentWord, mounted, badge,
                 currentTime,
                 currentWordIndex, timers, paused, playerError, firedAgo>>

\* play/pause through the native controls or the space bar
TogglePlay ==
  /\ mounted
  /\ ~playerError
  /\ paused' = ~paused
  /\ last' = Op("togglePlay", -1, <<>>, -1)
  /\ UNCHANGED <<transcriptData, highlightCurrentWord, mounted, badge,
                 currentTime,
                 currentWordIndex, timers, videoTime, playerError, firedAgo>>

\* seek through the native controls or the arrow keys
NativeSeek(t) ==
  /\ mounted
  /\ ~playerError
  /\ t # videoTime
  /\ videoTime' = t
  /\ last' = Op("nativeSeek", t, <<>>, -1)
  /\ UNCHANGED <<transcriptData, highlightCurrentWord, mounted, badge,
                 currentTime,
                 currentWordIndex, timers, paused, playerError, firedAgo>>

\* "timeupdate" event: InteractiveVideoPlayer.handleTimeUpdate, then
\* VideoPlayerWithTranscript.handleTimeUpdate
TimeUpdate ==
  /\ mounted
  /\ ~playerError
  /\ SetCurrentTime(videoTime)
  /\ last' = Op("timeUpdate", videoTime, <<>>, -1)
  /\ UNCHANGED <<transcriptData, highlightCurrentWord, mounted, badge,
                 videoTime, paused,
                 playerError, firedAgo>>

\* click on the button of word i (1-based position in words)
WordClick(i) ==
  /\ mounted
  /\ i \in 1..Len(words)
  /\ SeekTo(HandleWordClick(words[i]))
  /\ last' = Op("wordClick", HandleWordClick(words[i]), words, i)
  /\ UNCHANGED <<transcriptData, highlightCurrentWord, mounted, badge,
                 playerError, firedAgo>>

\* wall-clock time passes; a due timer runs at most MaxLateMs late
Tick ==
  /\ \A T \in timers : T.age + TickMs <= AgeCap
  /\ timers' = {[T EXCEPT !.age = T.age + TickMs] : T \in timers}
  /\ firedAgo' = IF firedAgo = NeverFired THEN NeverFired
                 ELSE Min(firedAgo + TickMs, FiredCap)
  /\ last' = Op("tick", -1, <<>>, -1)
  /\ UNCHANGED <<transcriptData, highlightCurrentWord, mounted, badge,
                 currentTime,
                 currentWordIndex, videoTime, paused, playerError>>

\* the setTimeout callback of the debounce effect; arg records how long
\* after the notification behind the previous recomputation this timer's
\* notification arrived (capped at DebounceMs)
TimerFire(T) ==
  /\ T \in timers
  /\ T.age >= DebounceMs
  /\ currentWordIndex' = IF FindIndex(T.ws, T.t) = Throws
                          THEN currentWordIndex
                          ELSE FindIndex(T.ws, T.t)
  /\ timers' = timers \ {T}
  /\ firedAgo' = T.age
  /\ last' = [Op("recompute",
                  IF firedAgo = NeverFired THEN DebounceMs
                  ELSE Min(firedAgo - T.age, DebounceMs),
                  T.ws, T.t)
               EXCEPT !.merged = T.merged,
                      !.threw = FindIndex(T.ws, T.t) = Throws]
  /\ UNCHANGED <<transcriptData, highlightCurrentWord, mounted, badge,
                 currentTime,
                 videoTime, paused, playerError>>

\* the page re-renders with another transcript_data_full
ReplaceTranscript(d) ==
  /\ mounted
  /\ d # transcriptData
  /\ transcriptData' = d
  /\ SyncEffect(Words(d), currentTime)
  /\ last' = Op("replace", Cardinality(timers), <<>>, -1)
  /\ UNCHANGED <<highlightCurrentWord, mounted, badge,
                 currentTime, videoTime, paused,
                 playerError, firedAgo>>

\* "error" event of the video element: the player renders the error card
VideoError ==
  /\ mounted
  /\ ~playerError
  /\ playerError' = TRUE
  /\ last' = Op("videoError", -1, <<>>, -1)
  /\ UNCHANGED <<transcriptData, highlightCurrentWord, mounted, badge,
                 currentTime,
                 currentWordIndex, timers, videoTime, paused, firedAgo>>

\* the page is left: InteractiveTranscript unmounts and React runs the
\* cleanup of the debounce effect
Unmount ==
  /\ mounted
  /\ mounted' = FALSE
  /\ timers' = EffectCleanup(timers)
  /\ last' = Op("unmount", Cardinality(timers), <<>>, -1)
  /\ UNCHANGED <<transcriptData, highlightCurrentWord, badge, currentTime,
                 currentWordIndex, videoTime, paused, playerError, firedAgo>>

NextSync ==
  \/ Playback /\ UNCHANGED nonSync
  \/ TogglePlay /\ UNCHANGED nonSync
  \/ \E t \in Times : NativeSeek(t) /\ UNCHANGED nonSync
  \/ TimeUpdate /\ UNCHANGED nonSync
  \/ \E i \in 1..MaxWords : WordClick(i) /\ UNCHANGED nonSync
  \/ Tick /\ UNCHANGED nonSync
  \/ \E T \in timers : TimerFire(T) /\ UNCHANGED nonSync
  \/ \E d \in TranscriptValues : ReplaceTranscript(d) /\ UNCHANGED nonSync
  \/ VideoError /\ UNCHANGED nonSync
  \/ Unmount /\ UNCHANGED nonSync

SpecSync == InitSync /\ [][NextSync]_vars

\* the player over full word lists of one-unit words, for the liveness of
\* the highlight
LiveValues ==
  {ArrayData(ws) : ws \in {x \in WordLists :
     Len(x) = MaxWords /\ \A i \in 1..Len(x) : x[i].end = x[i].start + 1}}

InitLive ==
  /\ \E d \in LiveValues : \E h \in BOOLEAN : ClientInit(d, h)
  /\ StoreInit
  /\ FormsClosed

NextLive ==
  \/ Playback /\ UNCHANGED nonSync
  \/ TogglePlay /\ UNCHANGED nonSync
  \/ \E t \in Times : NativeSeek(t) /\ UNCHANGED nonSync
  \/ TimeUpdate /\ UNCHANGED nonSync
  \/ \E i \in 1..MaxWords : WordClick(i) /\ UNCHANGED nonSync
  \/ Tick /\ UNCHANGED nonSync
  \/ \E T \in timers : TimerFire(T) /\ UNCHANGED nonSync
  \/ \E d \in LiveValues : ReplaceTranscript(d) /\ UNCHANGED nonSync
  \/ VideoError /\ UNCHANGED nonSync
  \/ Unmount /\ UNCHANGED nonSync

\* time passes and the event loop runs a due setTimeout callback
SpecLive ==
  /\ InitLive
  /\ [][NextLive]_vars
  /\ WF_vars(Tick /\ UNCHANGED nonSync)
  /\ WF_vars(\E T \in timers : TimerFire(T) /\ UNCHANGED nonSync)

\* the player over transcript data that is no list of words
InitDegraded ==
  /\ \E d \in DegradedValues : ClientInit(d, TRUE)
  /\ StoreInit
  /\ FormsClosed

NextDegraded ==
  \/ Playback /\ UNCHANGED nonSync
  \/ TogglePlay /\ UNCHANGED nonSync
  \/ \E t \in Times : NativeSeek(t) /\ UNCHANGED nonSync
  \/ TimeUpdate /\ UNCHANGED nonSync
  \/ Tick /\ UNCHANGED nonSync
  \/ \E T \in timers : TimerFire(T) /\ UNCHANGED nonSync
  \/ \E d \in DegradedValues : ReplaceTranscript(d) /\ UNCHANGED nonSync
  \/ VideoError /\ UNCHANGED nonSync
  \/ Unmount /\ UNCHANGED nonSync

SpecDegraded == InitDegraded /\ [][NextDegraded]_vars

\* the confidence badges of a mounted transcript
InitConfidence ==
  /\ ClientInit(ArrayData(<<SampleWord>>), TRUE)
  /\ StoreInit
  /\ FormsClosed

NextConfidence ==
  \/ \E c \in Confidences : RenderBadge(c) /\ UNCHANGED nonSync
  \/ Unmount /\ UNCHANGED nonSync

SpecConfidence == InitConfidence /\ [][NextConfidence]_vars

\* ----------------------------------------------------------- Deepgram flow
\* body of a webhook POST: kind is "invalid" (not JSON), "null", "prim"
\* (a JSON number, string or boolean) or "obj"; for an object, metadata
\* tells whether it has a metadata object, rid is metadata.request_id, and
\* depth tells how much of results.channels[0].alternatives[0] exists:
\* 0 no results, 1 no channels, 2 channels empty, 3 no alternatives,
\* 4 alternatives empty, 5 alternatives[0] present
Payload(kind, metadata, rid, depth, text, data) ==
  [kind |-> kind, metadata |-> metadata, rid |-> rid, depth |-> depth,
   text |-> text, words |-> data]

FullDepth == 5

WellFormedPayloads ==
  {Payload("obj", TRUE, r, FullDepth, t, w) :
     r \in RequestIds \cup {ForgedId}, t \in TranscriptTexts, w \in WordArrays}

MalformedPayloads ==
  {Payload("invalid", FALSE, UndefinedId, 0, Undefined, Undefined),
   Payload("null", FALSE, UndefinedId, 0, Undefined, Undefined),
   Payload("prim", FALSE, UndefinedId, 0, Undefined, Undefined)}
  \cup {Payload("obj", FALSE, UndefinedId, FullDepth, "T1", "W1")}
  \cup {Payload("obj", TRUE, 1, d, "T1", "W1") : d \in 0..(FullDepth - 1)}

\* an object with everything but metadata.request_id
SparsePayloads == {Payload("obj", TRUE, UndefinedId, FullDepth, "T1", "W1")}

Payloads == WellFormedPayloads \cup MalformedPayloads \cup SparsePayloads

\* request.json() and the three property chains of POST: data?.metadata
\* short-circuits the whole chain for null (and undefined) only
ParseThrows(pl) ==
  \/ pl.kind \in {"invalid", "prim"}
  \/ pl.kind = "obj" /\ (~pl.metadata \/ pl.depth < FullDepth)

ExtractRequestId(pl) == IF pl.kind = "null" THEN UndefinedId ELSE pl.rid

ExtractText(pl) == IF pl.kind = "null" THEN Undefined ELSE pl.text

ExtractWords(pl) == IF pl.kind = "null" THEN Undefined ELSE pl.words

UpdateTranscriptRowsKeepStatus(vs, requestId, text, data) ==
  {IF MatchesRequest(v, requestId)
   THEN [v EXCEPT !.transcript_text = SetColumn(@, text),
                  !.transcript_data_full = SetColumn(@, data)]
   ELSE v : v \in vs}

UpdateTranscriptRowsNoFilter(vs, requestId, text, data) ==
  {[v EXCEPT !.transcript_text = SetColumn(@, text),
             !.transcript_data_full = SetColumn(@, data),
             !.status = "transcribed"] : v \in vs}

\* an update that flips the status of a matching row
UpdateTranscriptRowsToggle(vs, requestId, text, data) ==
  {IF MatchesRequest(v, requestId)
   THEN [v EXCEPT !.transcript_text = SetColumn(@, text),
                  !.transcript_data_full = SetColumn(@, data),
                  !.status = IF @ = "transcribed" THEN "transcribing"
                             ELSE "transcribed"]
   ELSE v : v \in vs}

\* the update of updateTranscript applied to the videos table
UpdateTranscriptRows(vs, requestId, text, data) ==
  {IF MatchesRequest(v, requestId)
   THEN [v EXCEPT !.transcript_text = SetColumn(@, text),
                  !.transcript_data_full = SetColumn(@, data),
                  !.status = "transcribed"]
   ELSE v : v \in vs}

\* updateTranscript; a store error (or an exception) leaves the table as
\* it is and is reported in the returned result only
UpdateTranscript(requestId, text, data, storeFails) ==
  videos' = IF storeFails THEN videos
            ELSE UpdateTranscriptRows(videos, requestId, text, data)

\* POST /api/deepgram/callback
Webhook(pl, storeFails) ==
  /\ IF ParseThrows(pl)
     THEN /\ UNCHANGED videos
          /\ res' = [Result("webhook", NoUser, FALSE, "error", {})
                       EXCEPT !.status = 500]
     ELSE /\ UpdateTranscript(ExtractRequestId(pl), ExtractText(pl),
                              ExtractWords(pl), storeFails)
          /\ res' = [Result("webhook", NoUser, TRUE, "ok", {})
                       EXCEPT !.status = 200,
                              !.rid = ExtractRequestId(pl)]
  /\ UNCHANGED <<projects, storage, ids, tv>>

PersistRowsStatusOnly(vs, path, rid) ==
  {IF v.storage_path = path
   THEN [v EXCEPT !.status = "transcribing"]
   ELSE v : v \in vs}

\* the update of transcribeVideo applied to the videos table
PersistRows(vs, path, rid) ==
  {IF v.storage_path = path
   THEN [v EXCEPT !.deepgram_request_id = SetIdColumn(@, rid),
                  !.status = "transcribing"]
   ELSE v : v \in vs}

\* transcribeVideo up to the POST to the provider; outcome is what the
\* fetch yields: "issued" (a response carrying a fresh request_id), "noid"
\* (a JSON response without request_id) or "throw" (fetch or json() throws)
TvPost(c, path, outcome) ==
  /\ tv.pc = "idle"
  /\ IF ~Authenticated(c) \/ outcome = "throw"
     THEN /\ res' = Void("transcribeVideo", c)
          /\ UNCHANGED <<ids, tv>>
     ELSE /\ outcome = "issued" => ids.r < MaxRequests
          /\ ids' = IF outcome = "issued" THEN [ids EXCEPT !.r = @ + 1]
                    ELSE ids
          /\ tv' = [pc |-> "posted", user |-> c, path |-> path,
                    rid |-> IF outcome = "issued" THEN ids.r + 1
                            ELSE UndefinedId]
          /\ res' = Result("transcribeVideo.post", c, TRUE, "", {})
  /\ UNCHANGED <<projects, videos, storage>>

\* transcribeVideo from the provider's response to its return
TvPersist(storeFails) ==
  /\ tv.pc = "posted"
  /\ videos' = IF storeFails THEN videos
               ELSE PersistRows(videos, tv.path, tv.rid)
  /\ tv' = IdleCall
  /\ res' = [Void("transcribeVideo", tv.user) EXCEPT !.rid = tv.rid]
  /\ UNCHANGED <<projects, storage, ids>>

\* --------------------------------------------------------- project actions
Fail(op, c, error) == Result(op, c, FALSE, error, {})

\* createProjectSchema / updateProjectSchema: project_title
ValidTitle(title) == title \in Titles

\* createProject
CreateProject(c, title, storeFails) ==
  /\ IF ~ValidTitle(title)
     THEN res' = Fail("createProject", c, "Project title is required")
          /\ UNCHANGED <<projects, ids>>
     ELSE IF ~Authenticated(c)
     THEN res' = Fail("createProject", c, "Authentication required")
          /\ UNCHANGED <<projects, ids>>
     ELSE IF storeFails
     THEN res' = Fail("createProject", c, "Failed to create project")
          /\ UNCHANGED <<projects, ids>>
     ELSE /\ ids.p < MaxProjects
          /\ LET project == [id |-> ids.p + 1, user_id |-> c,
                             project_title |-> title]
             IN /\ projects' = projects \cup {project}
                /\ res' = Result("createProject", c, TRUE, "", {project})
          /\ ids' = [ids EXCEPT !.p = @ + 1]
  /\ UNCHANGED <<videos, storage, tv>>

\* getProjects
GetProjects(c, storeFails) ==
  /\ res' = IF ~Authenticated(c)
            THEN Fail("getProjects", c, "Authentication required")
            ELSE IF storeFails
            THEN Fail("getProjects", c, "Failed to fetch projects")
            ELSE Result("getProjects", c, TRUE, "",
                        {p \in projects : p.user_id = c})
  /\ UNCHANGED <<projects, videos, storage, ids, tv>>

\* the rows selected by .eq("id", id).eq("user_id", user)
AnyProjectRows(c, id) == {p \in projects : p.id = id}

OwnProjectRows(c, id) == {p \in projects : p.id = id /\ p.user_id = c}

\* getProject
GetProject(c, id, storeFails) ==
  /\ res' = IF ~IsUuid(id)
            THEN Fail("getProject", c, "Invalid project ID")
            ELSE IF ~Authenticated(c)
            THEN Fail("getProject", c, "Authentication required")
            ELSE IF storeFails \/ OwnProjectRows(c, id) = {}
            THEN Fail("getProject", c, "Project not found")
            ELSE Result("getProject", c, TRUE, "", OwnProjectRows(c, id))
  /\ UNCHANGED <<projects, videos, storage, ids, tv>>

\* updateProject; title is Undefined when the field is not given
UpdateProject(c, id, title, storeFails) ==
  /\ IF ~IsUuid(id)
     THEN res' = Fail("updateProject", c, "Invalid project ID")
          /\ UNCHANGED projects
     ELSE IF title # Undefined /\ ~ValidTitle(title)
     THEN res' = Fail("updateProject", c, "Project title is required")
          /\ UNCHANGED projects
     ELSE IF ~Authenticated(c)
     THEN res' = Fail("updateProject", c, "Authentication required")
          /\ UNCHANGED projects
     ELSE IF storeFails \/ OwnProjectRows(c, id) = {}
     THEN res' = Fail("updateProject", c, "Failed to update project")
          /\ UNCHANGED projects
     ELSE LET updated == {[p EXCEPT !.project_title = SetColumn(@, title)] :
                            p \in OwnProjectRows(c, id)}
          IN /\ projects' = (projects \ OwnProjectRows(c, id)) \cup updated
             /\ res' = Result("updateProject", c, TRUE, "", updated)
  /\ UNCHANGED <<videos, storage, ids, tv>>

\* deleteProject; the videos of a deleted project go with it (the foreign
\* key behind projects!inner), and a refused delete is a store error
DeleteProject(c, id, storeFails) ==
  /\ IF ~IsUuid(id)
     THEN res' = Fail("deleteProject", c, "Invalid project ID")
          /\ UNCHANGED <<projects, videos>>
     ELSE IF ~Authenticated(c)
     THEN res' = Fail("deleteProject", c, "Authentication required")
          /\ UNCHANGED <<projects, videos>>
     ELSE IF storeFails
     THEN res' = Fail("deleteProject", c, "Failed to delete project")
          /\ UNCHANGED <<projects, videos>>
     ELSE /\ projects' = projects \ OwnProjectRows(c, id)
          /\ videos' = {v \in videos :
                          \A p \in OwnProjectRows(c, id) : v.project_id # p.id}
          /\ res' = Result("deleteProject", c, TRUE, "", {})
  /\ UNCHANGED <<storage, ids, tv>>

\* ----------------------------------------------------------- video actions
\* z.enum(videoStatusValues), optional
ValidStatus(status) == status = Undefined \/ status \in StatusValues

\* the rows selected by .eq("id", id).eq("projects.user_id", user)
AnyVideoRows(c, id) == {v \in videos : v.id = id}

OwnVideoRows(c, id) == {v \in videos : v.id = id /\ OwnsVideo(c, v)}

\* the result of createVideo; d is CreateVideoData
CreateVideoResult(c, d, storeFails) ==
  IF ~IsUuid(d.project_id) \/ ~ValidPath(d.storage_path)
     \/ ~ValidStatus(d.status)
  THEN Fail("createVideo", c, "validation")
  ELSE IF ~Authenticated(c)
  THEN Fail("createVideo", c, "Authentication required")
  ELSE IF OwnProjectRows(c, d.project_id) = {}
  THEN Fail("createVideo", c, "Project not found or access denied")
  ELSE IF storeFails
  THEN Fail("createVideo", c, "Failed to create video")
  ELSE LET video ==
             [id |-> ids.v + 1,
              project_id |-> d.project_id,
              storage_path |-> d.storage_path,
              status |-> IF d.status = Undefined THEN "uploaded"
                         ELSE d.status,
              transcript |-> IF d.transcript = Undefined THEN Null
                             ELSE d.transcript,
              transcript_text |-> Null,
              transcript_data_full |-> Null,
              deepgram_request_id |-> NullId]
       IN Result("createVideo", c, TRUE, "", {video})

\* createVideo
CreateVideo(c, d, storeFails) ==
  LET r == CreateVideoResult(c, d, storeFails)
  IN /\ res' = r
     /\ IF r.ok
        THEN /\ ids.v < MaxVideos
             /\ videos' = videos \cup r.ret
             /\ ids' = [ids EXCEPT !.v = @ + 1]
        ELSE UNCHANGED <<videos, ids>>
     /\ UNCHANGED <<projects, storage, tv>>

\* getVideosByProject
GetVideosByProject(c, pid, storeFails) ==
  /\ res' = IF ~IsUuid(pid)
            THEN Fail("getVideosByProject", c, "validation")
            ELSE IF ~Authenticated(c)
            THEN Fail("getVideosByProject", c, "Authentication required")
            ELSE IF storeFails
            THEN Fail("getVideosByProject", c, "Failed to fetch videos")
            ELSE Result("getVideosByProject", c, TRUE, "",
                        {v \in videos : v.project_id = pid /\ OwnsVideo(c, v)})
  /\ UNCHANGED <<projects, videos, storage, ids, tv>>

\* getAllVideos
GetAllVideos(c, storeFails) ==
  /\ res' = IF ~Authenticated(c)
            THEN Fail("getAllVideos", c, "Authentication required")
            ELSE IF storeFails
            THEN Fail("getAllVideos", c, "Failed to fetch videos")
            ELSE Result("getAllVideos", c, TRUE, "",
                        {v \in videos : OwnsVideo(c, v)})
  /\ UNCHANGED <<projects, videos, storage, ids, tv>>

\* getVideoById
GetVideoById(c, id, storeFails) ==
  /\ res' = IF ~IsUuid(id)
            THEN Fail("getVideoById", c, "validation")
            ELSE IF ~Authenticated(c)
            THEN Fail("getVideoById", c, "Authentication required")
            ELSE IF storeFails \/ OwnVideoRows(c, id) = {}
            THEN Fail("getVideoById", c, "Video not found or access denied")
            ELSE Result("getVideoById", c, TRUE, "", OwnVideoRows(c, id))
  /\ UNCHANGED <<projects, videos, storage, ids, tv>>

\* the target-project check of updateVideo passes
TargetProjectUnchecked(c, d, existing) == TRUE

TargetProjectOk(c, d, existing) ==
  \/ d.project_id = UndefinedId
  \/ \A v \in existing : d.project_id = v.project_id
  \/ OwnProjectRows(c, d.project_id) # {}

\* updateVideo; d is UpdateVideoData, a field not given is Undefined
UpdateVideo(c, d, storeFails) ==
  /\ IF ~IsUuid(d.id) \/ ~IsUuid(d.project_id)
        \/ (d.storage_path # Undefined /\ ~ValidPath(d.storage_path))
        \/ ~ValidStatus(d.status)
     THEN res' = Fail("updateVideo", c, "validation")
          /\ UNCHANGED videos
     ELSE IF ~Authenticated(c)
     THEN res' = Fail("updateVideo", c, "Authentication required")
          /\ UNCHANGED videos
     ELSE IF OwnVideoRows(c, d.id) = {}
     THEN res' = Fail("updateVideo", c, "Video not found or access denied")
          /\ UNCHANGED videos
     ELSE IF ~TargetProjectOk(c, d, OwnVideoRows(c, d.id))
     THEN res' = Fail("updateVideo", c,
                      "Target project not found or access denied")
          /\ UNCHANGED videos
     ELSE IF storeFails
     THEN res' = Fail("updateVideo", c, "Failed to update video")
          /\ UNCHANGED videos
     ELSE LET rows == {v \in videos : v.id = d.id}
              updated ==
                {[v EXCEPT
                    !.project_id = SetIdColumn(@, d.project_id),
                    !.storage_path = SetColumn(@, d.storage_path),
                    !.status = SetColumn(@, d.status),
                    !.transcript = SetColumn(@, d.transcript)] : v \in rows}
          IN /\ videos' = (videos \ rows) \cup updated
             /\ res' = Result("updateVideo", c, TRUE, "", updated)
  /\ UNCHANGED <<projects, storage, ids, tv>>

\* updateVideoTranscript; d is UpdateTranscriptData
UpdateVideoTranscript(c, d, storeFails) ==
  /\ IF ~IsUuid(d.id) \/ ~ValidStatus(d.status)
     THEN res' = Fail("updateVideoTranscript", c, "validation")
          /\ UNCHANGED videos
     ELSE IF ~Authenticated(c)
     THEN res' = Fail("updateVideoTranscript", c, "Authentication required")
          /\ UNCHANGED videos
     ELSE IF OwnVideoRows(c, d.id) = {}
     THEN res' = Fail("updateVideoTranscript", c,
                      "Video not found or access denied")
          /\ UNCHANGED videos
     ELSE IF storeFails
     THEN res' = Fail("updateVideoTranscript", c, "Failed to update transcript")
          /\ UNCHANGED videos
     ELSE LET rows == {v \in videos : v.id = d.id}
              updated ==
                {[v EXCEPT !.transcript = d.transcript,
                           !.status = SetColumn(@, d.status)] : v \in rows}
          IN /\ videos' = (videos \ rows) \cup updated
             /\ res' = Result("updateVideoTranscript", c, TRUE, "", updated)
  /\ UNCHANGED <<projects, storage, ids, tv>>

\* deleteVideoFile: storage.remove([path]); a removal error is only logged
DeleteVideoFile(c, path, removeFails) ==
  storage' = IF ~Authenticated(c) \/ removeFails THEN storage
             ELSE storage \ {path}

\* the storage.remove calls of one deleteVideoFile
RemoveCallsRetry(c) == IF Authenticated(c) THEN 2 ELSE 0

RemoveCalls(c) == IF Authenticated(c) THEN 1 ELSE 0

\* deleteVideo
DeleteVideo(c, id, storeFails, removeFails) ==
  /\ IF ~IsUuid(id)
     THEN res' = Fail("deleteVideo", c, "validation")
          /\ UNCHANGED <<videos, storage>>
     ELSE IF ~Authenticated(c)
     THEN res' = Fail("deleteVideo", c, "Authentication required")
          /\ UNCHANGED <<videos, storage>>
     ELSE IF OwnVideoRows(c, id) = {}
     THEN res' = Fail("deleteVideo", c, "Video not found or access denied")
          /\ UNCHANGED <<videos, storage>>
     ELSE IF storeFails
     THEN res' = Fail("deleteVideo", c, "Failed to delete video")
          /\ UNCHANGED <<videos, storage>>
     ELSE /\ videos' = {v \in videos : v.id # id}
          /\ \E v \in OwnVideoRows(c, id) :
               DeleteVideoFile(c, v.storage_path, removeFails)
          /\ res' = [Result("deleteVideo", c, TRUE, "", {})
                       EXCEPT !.removes = RemoveCalls(c)]
  /\ UNCHANGED <<projects, ids, tv>>

\* ------------------------------------------------------------ file actions
\* maxSize of uploadVideoFile, in bytes
MaxSize == 100 * 1024 * 1024

\* allowedTypes of uploadVideoFile
AllowedTypes ==
  {"video/mp4", "video/mov", "video/avi", "video/webm", "video/quicktime"}

\* formData.get("file"): a File, or null
File(size, type) == [present |-> TRUE, size |-> size, type |-> type]

NoFile == [present |-> FALSE, size |-> 0, type |-> ""]

\* storagePath of the n-th upload: videos/<project>/<unique file name>
UploadPath(pid, n) == "videos/" \o ToString(pid) \o "/" \o ToString(n)

\* an upload without the size limit
UploadResultAnySize(c, file, pid, uploadFails) ==
  IF ~file.present
  THEN Fail("uploadVideoFile", c, "No file provided")
  ELSE IF pid = NullId
  THEN Fail("uploadVideoFile", c, "Project ID is required")
  ELSE IF file.type \notin AllowedTypes
  THEN Fail("uploadVideoFile", c,
            "File type not supported. Please use MP4, MOV, AVI, or WebM")
  ELSE IF ~Authenticated(c)
  THEN Fail("uploadVideoFile", c, "Authentication required")
  ELSE IF OwnProjectRows(c, pid) = {}
  THEN Fail("uploadVideoFile", c, "Project not found or access denied")
  ELSE IF uploadFails
  THEN Fail("uploadVideoFile", c, "Failed to upload file")
  ELSE Result("uploadVideoFile", c, TRUE, "",
              {[storagePath |-> UploadPath(pid, ids.u + 1)]})

\* the result of uploadVideoFile; a projectId that is not given is NullId
UploadResult(c, file, pid, uploadFails) ==
  IF ~file.present
  THEN Fail("uploadVideoFile", c, "No file provided")
  ELSE IF pid = NullId
  THEN Fail("uploadVideoFile", c, "Project ID is required")
  ELSE IF file.size > MaxSize
  THEN Fail("uploadVideoFile", c, "File size must be less than 100MB")
  ELSE IF file.type \notin AllowedTypes
  THEN Fail("uploadVideoFile", c,
            "File type not supported. Please use MP4, MOV, AVI, or WebM")
  ELSE IF ~Authenticated(c)
  THEN Fail("uploadVideoFile", c, "Authentication required")
  ELSE IF OwnProjectRows(c, pid) = {}
  THEN Fail("uploadVideoFile", c, "Project not found or access denied")
  ELSE IF uploadFails
  THEN Fail("uploadVideoFile", c, "Failed to upload file")
  ELSE Result("uploadVideoFile", c, TRUE, "",
              {[storagePath |-> UploadPath(pid, ids.u + 1)]})

\* uploadVideoFile
UploadVideoFile(c, file, pid, uploadFails) ==
  LET r == UploadResult(c, file, pid, uploadFails)
  IN /\ res' = r
     /\ IF r.ok
        THEN /\ ids.u < MaxUploads
             /\ storage' = storage \cup {x.storagePath : x \in r.ret}
             /\ ids' = [ids EXCEPT !.u = @ + 1]
        ELSE UNCHANGED <<storage, ids>>
     /\ UNCHANGED <<projects, videos, tv>>

\* videoData of createVideoWithFile
VideoData(pid, path, status) ==
  [project_id |-> pid, storage_path |-> path,
   status |-> IF status \in {Undefined, ""} THEN "uploaded" ELSE status,
   transcript |-> Null]

\* createVideoWithFile: the file, when there is one, is uploaded first and
\* the record is created with the path of the upload
CreateVideoWithFile(c, file, pid, status, path, upFails, dbFails) ==
  /\ IF file.present /\ file.size > 0
     THEN LET u == UploadResult(c, file, pid, upFails)
              r == CreateVideoResult(
                     c, VideoData(pid, UploadPath(pid, ids.u + 1), status),
                     dbFails)
          IN IF ~u.ok
             THEN /\ res' = Fail("createVideoWithFile", c, u.error)
                  /\ UNCHANGED <<videos, storage, ids>>
             ELSE /\ ids.u < MaxUploads
                  /\ storage' = storage \cup {x.storagePath : x \in u.ret}
                  /\ res' = [r EXCEPT !.op = "createVideoWithFile"]
                  /\ IF r.ok
                     THEN /\ ids.v < MaxVideos
                          /\ videos' = videos \cup r.ret
                          /\ ids' = [ids EXCEPT !.u = @ + 1, !.v = @ + 1]
                     ELSE /\ UNCHANGED videos
                          /\ ids' = [ids EXCEPT !.u = @ + 1]
     ELSE LET r == CreateVideoResult(c, VideoData(pid, path, status),
                                     dbFails)
          IN /\ res' = [r EXCEPT !.op = "createVideoWithFile"]
             /\ IF r.ok
                THEN /\ ids.v < MaxVideos
                     /\ videos' = videos \cup r.ret
                     /\ ids' = [ids EXCEPT !.v = @ + 1]
                ELSE UNCHANGED <<videos, ids>>
             /\ UNCHANGED storage
  /\ UNCHANGED <<projects, tv>>

\* getVideoPublicUrl
GetVideoPublicUrl(c, path) ==
  /\ res' = IF ~Authenticated(c)
            THEN Fail("getVideoPublicUrl", c, "Authentication required")
            ELSE Result("getVideoPublicUrl", c, TRUE, "",
                        {[publicUrl |-> path]})
  /\ UNCHANGED <<projects, videos, storage, ids, tv>>

\* deleteVideoFile called as an action of its own
DeleteVideoFileCall(c, path, removeFails) ==
  /\ DeleteVideoFile(c, path, removeFails)
  /\ res' = IF ~Authenticated(c)
            THEN Fail("deleteVideoFile", c, "Authentication required")
            ELSE [Result("deleteVideoFile", c, TRUE, "", {})
                    EXCEPT !.removes = RemoveCalls(c)]
  /\ UNCHANGED <<projects, videos, ids, tv>>

\* ---------------------------------------------------------- specifications
\* the client at rest while the server side is explored
ClientIdle == ClientInit(StringData, FALSE)

InitStore == ClientIdle /\ StoreInit /\ FormsClosed

Outcomes == {"issued", "noid", "throw"}

IdInputs == {InvalidId} \cup ProjectIds

\* the read actions change nothing but their result, transcribeVideo uses
\* its caller for the authentication check only, and the two users are
\* interchangeable: the calls of one of them are explored for these
Readers == {"u1", NoUser}

NewVideos ==
  [project_id : ProjectIds, storage_path : Paths, status : {Undefined},
   transcript : {Undefined}]

\* uploads, transcription requests and webhook deliveries
NextTranscribe ==
  \/ \E c \in Callers : \E f \in BOOLEAN :
       CreateProject(c, "t1", f) /\ UNCHANGED nonStore
  \/ \E c \in Callers : \E d \in NewVideos : \E f \in BOOLEAN :
       CreateVideo(c, d, f) /\ UNCHANGED nonStore
  \/ \E c \in Readers : \E path \in Paths : \E o \in Outcomes :
       TvPost(c, path, o) /\ UNCHANGED nonStore
  \/ \E f \in BOOLEAN : TvPersist(f) /\ UNCHANGED nonStore
  \/ \E pl \in Payloads : \E f \in BOOLEAN :
       (f => ~ParseThrows(pl)) /\ Webhook(pl, f) /\ UNCHANGED nonStore

SpecTranscribe == InitStore /\ [][NextTranscribe]_vars

VideoIdInputs == {InvalidId} \cup VideoIds

NewVideo(pid, path, status) ==
  [project_id |-> pid, storage_path |-> path, status |-> status,
   transcript |-> Undefined]

\* valid and invalid CreateVideoData
CreateInputs ==
  {NewVideo(pid, "a", Undefined) : pid \in IdInputs}
  \cup {NewVideo(1, "", Undefined), NewVideo(1, "long", Undefined),
        NewVideo(1, "a", "bogus")}

NoUpdate(id) ==
  [id |-> id, project_id |-> UndefinedId, storage_path |-> Undefined,
   status |-> Undefined, transcript |-> Undefined]

\* valid and invalid UpdateVideoData, one field at a time
UpdateInputs ==
  {NoUpdate(InvalidId)}
  \cup {[NoUpdate(id) EXCEPT !.project_id = pid] :
          id \in VideoIds, pid \in IdInputs}
  \cup {[NoUpdate(id) EXCEPT !.storage_path = path] :
          id \in VideoIds, path \in {"a", ""}}
  \cup {[NoUpdate(id) EXCEPT !.status = st] :
          id \in VideoIds, st \in {"bogus"}}

\* valid and invalid UpdateTranscriptData
TranscriptInputs ==
  [id : VideoIdInputs, transcript : {"m"}, status : {"transcribed"}]
  \cup [id : VideoIds, transcript : {Null}, status : {"bogus"}]

\* a store (or storage) failure does not depend on who calls: it is explored
\* for the calls of one user
StoreFails(c) == IF c = "u1" THEN BOOLEAN ELSE {FALSE}

\* the project and video actions called by any caller
NextStore ==
  \/ \E c \in Callers : \E t \in {"t1", ""} : \E f \in StoreFails(c) :
       CreateProject(c, t, f) /\ UNCHANGED nonStore
  \/ \E c \in Readers : \E f \in StoreFails(c) :
       GetProjects(c, f) /\ UNCHANGED nonStore
  \/ \E c \in Readers : \E id \in IdInputs : \E f \in StoreFails(c) :
       GetProject(c, id, f) /\ UNCHANGED nonStore
  \/ \E c \in Callers : \E id \in IdInputs :
     \E t \in {"t2", ""} : \E f \in StoreFails(c) :
       UpdateProject(c, id, t, f) /\ UNCHANGED nonStore
  \/ \E c \in Callers : \E id \in IdInputs : \E f \in StoreFails(c) :
       DeleteProject(c, id, f) /\ UNCHANGED nonStore
  \/ \E c \in Callers : \E d \in CreateInputs : \E f \in StoreFails(c) :
       CreateVideo(c, d, f) /\ UNCHANGED nonStore
  \/ \E c \in Readers : \E id \in IdInputs : \E f \in StoreFails(c) :
       GetVideosByProject(c, id, f) /\ UNCHANGED nonStore
  \/ \E c \in Readers : \E f \in StoreFails(c) :
       GetAllVideos(c, f) /\ UNCHANGED nonStore
  \/ \E c \in Readers : \E id \in VideoIdInputs : \E f \in StoreFails(c) :
       GetVideoById(c, id, f) /\ UNCHANGED nonStore
  \/ \E c \in Callers : \E d \in UpdateInputs : \E f \in StoreFails(c) :
       UpdateVideo(c, d, f) /\ UNCHANGED nonStore
  \/ \E c \in Callers : \E d \in TranscriptInputs : \E f \in StoreFails(c) :
       UpdateVideoTranscript(c, d, f) /\ UNCHANGED nonStore
  \/ \E c \in Callers : \E id \in VideoIdInputs :
     \E f \in StoreFails(c) : \E g \in StoreFails(c) :
       ~(f /\ g) /\ DeleteVideo(c, id, f, g) /\ UNCHANGED nonStore

SpecStore == InitStore /\ [][NextStore]_vars

\* files of the upload form: none, one of the largest accepted size, one
\* too large, one of a type that is not accepted, an empty one
FileInputs ==
  {NoFile, File(MaxSize, "video/mp4"), File(MaxSize + 1, "video/mp4"),
   File(1, "text/plain"), File(0, "video/webm")}

\* projectId of the upload form: not given, no UUID, or an id
FormIdInputs == {NullId} \cup IdInputs

OkFile == File(MaxSize, "video/mp4")

\* forms of uploadVideoFile, one field varied at a time
UploadForms ==
  {[file |-> f, pid |-> 1] : f \in FileInputs}
  \cup {[file |-> OkFile, pid |-> p] : p \in FormIdInputs}

VideoForm(file, pid, status, path) ==
  [file |-> file, pid |-> pid, status |-> status, path |-> path]

\* forms of createVideoWithFile, one field varied at a time
VideoForms ==
  {VideoForm(f, 1, Undefined, "a") : f \in FileInputs}
  \cup {VideoForm(OkFile, p, Undefined, "a") : p \in IdInputs}
  \cup {VideoForm(f, 1, "bogus", "a") : f \in {OkFile, NoFile}}
  \cup {VideoForm(NoFile, 1, Undefined, path) : path \in {"", "long"}}

\* the actions that validate their input and the actions on storage
NextFiles ==
  \/ \E c \in Callers : \E t \in {"t1", ""} :
       CreateProject(c, t, FALSE) /\ UNCHANGED nonStore
  \/ \E c \in Readers : \E id \in IdInputs : \E t \in {"t2", ""} :
       UpdateProject(c, id, t, FALSE) /\ UNCHANGED nonStore
  \/ \E c \in Readers : \E d \in CreateInputs :
       CreateVideo(c, d, FALSE) /\ UNCHANGED nonStore
  \/ \E c \in Readers : \E d \in UpdateInputs :
       UpdateVideo(c, d, FALSE) /\ UNCHANGED nonStore
  \/ \E c \in Readers : \E d \in TranscriptInputs :
       UpdateVideoTranscript(c, d, FALSE) /\ UNCHANGED nonStore
  \/ \E c \in Readers : \E id \in VideoIdInputs :
     \E f \in StoreFails(c) : \E g \in StoreFails(c) :
       ~(f /\ g) /\ DeleteVideo(c, id, f, g) /\ UNCHANGED nonStore
  \/ \E c \in Callers : \E d \in UploadForms : \E f \in StoreFails(c) :
       UploadVideoFile(c, d.file, d.pid, f) /\ UNCHANGED nonStore
  \/ \E c \in Callers : \E d \in VideoForms :
     \E f \in StoreFails(c) : \E g \in StoreFails(c) :
       ~(f /\ g)
       /\ CreateVideoWithFile(c, d.file, d.pid, d.status, d.path, f, g)
       /\ UNCHANGED nonStore
  \/ \E c \in Readers : \E path \in storage \cup {"a"} :
       GetVideoPublicUrl(c, path) /\ UNCHANGED nonStore
  \/ \E c \in Readers : \E path \in storage \cup {"a"} :
     \E g \in StoreFails(c) :
       DeleteVideoFileCall(c, path, g) /\ UNCHANGED nonStore

SpecFiles == InitStore /\ [][NextFiles]_vars

\* uploads into the projects of two users, and the removal of objects
NextUpload ==
  \/ \E c \in Callers : \E t \in {"t1", ""} :
       CreateProject(c, t, FALSE) /\ UNCHANGED nonStore
  \/ \E c \in Callers : \E id \in IdInputs :
       DeleteProject(c, id, FALSE) /\ UNCHANGED nonStore
  \/ \E c \in Callers : \E d \in UploadForms : \E f \in BOOLEAN :
       UploadVideoFile(c, d.file, d.pid, f) /\ UNCHANGED nonStore
  \/ \E c \in Callers : \E path \in storage \cup {"a"} :
     \E g \in BOOLEAN :
       DeleteVideoFileCall(c, path, g) /\ UNCHANGED nonStore

SpecUpload == InitStore /\ [][NextUpload]_vars

\* ------------------------------------------------------- VideoUploadForm
\* handleFileUpload up to the result of the upload: the browser uploads
\* the selected file to the bucket under a fresh name
UfUpload(c, pid, uploadFails) ==
  /\ uf.pc = "idle"
  /\ IF uploadFails
     THEN /\ uf' = [NoUpload EXCEPT !.error = "Upload failed"]
          /\ UNCHANGED <<storage, ids>>
     ELSE /\ ids.u < MaxUploads
          /\ storage' = storage \cup {UploadPath(pid, ids.u + 1)}
          /\ ids' = [ids EXCEPT !.u = @ + 1]
          /\ uf' = [NoUpload EXCEPT !.pc = "uploaded", !.user = c,
                                    !.pid = pid,
                                    !.path = UploadPath(pid, ids.u + 1)]
  /\ UNCHANGED <<projects, videos, tv, res>>

\* the transition of handleFileUpload up to the result of createVideo;
\* a call that rejects is caught and ends the handler
UfCreate(storeFails, throws) ==
  /\ uf.pc = "uploaded"
  /\ IF throws
     THEN /\ uf' = [uf EXCEPT !.pc = "idle",
                              !.error = "An unexpected error occurred"]
          /\ UNCHANGED storeVars
     ELSE /\ CreateVideo(uf.user, VideoData(uf.pid, uf.path, "uploaded"),
                         storeFails)
          /\ uf' = [uf EXCEPT
                      !.pc = "created",
                      !.created = res'.ok,
                      !.error = IF res'.ok THEN ""
                                ELSE "Failed to create video record"]

\* the statement after the if/else on the result: transcribeVideo is
\* awaited with the path of the upload
UfTranscribe(outcome) ==
  /\ uf.pc = "created"
  /\ TvPost(uf.user, uf.path, outcome)
  /\ uf' = [uf EXCEPT !.pc = "idle", !.called = TRUE]

InitUploadForm == InitStore

\* file uploads of two users through the form
NextUploadForm ==
  \/ \E c \in Users : CreateProject(c, "t1", FALSE) /\ UNCHANGED nonStore
  \/ \E c \in Users : \E pid \in ProjectIds : \E f \in BOOLEAN :
       UfUpload(c, pid, f) /\ UNCHANGED <<syncVars, tm, ef>>
  \/ \E f \in BOOLEAN : \E t \in BOOLEAN :
       ~(f /\ t) /\ UfCreate(f, t) /\ UNCHANGED <<syncVars, tm, ef>>
  \/ \E o \in Outcomes : UfTranscribe(o) /\ UNCHANGED <<syncVars, tm, ef>>
  \/ \E f \in BOOLEAN : TvPersist(f) /\ UNCHANGED nonStore

SpecUploadForm == InitUploadForm /\ [][NextUploadForm]_vars

\* ----------------------------------------------------- TranscriptManager
\* texts of the transcript textarea: plain words (no JSON), one of them
\* with a trailing blank
FormTexts == {"", "T1", "T2", "T1 "}

\* String.prototype.trim
Trim(text) == IF text = "T1 " THEN "T1" ELSE text

\* getTranscriptText for null and for a plain string
GetTranscriptText(transcript) == IF transcript = Null THEN "" ELSE transcript

\* processedTranscript of handleSave: JSON.parse throws for a plain text
ProcessedTranscript(text) == IF Trim(text) = "" THEN Null ELSE Trim(text)

\* the row of a video as a page or a form holds it
VideoRow(id) == CHOOSE v \in videos : v.id = id

\* useState initialisers of TranscriptManager
TmMounted(c, video, onUpdate) ==
  [open |-> TRUE, user |-> c, video |-> video, onUpdate |-> onUpdate,
   mode |-> "view", status |-> video.status,
   transcript |-> video.transcript,
   transcriptText |-> GetTranscriptText(video.transcript),
   errors |-> "", reloading |-> FALSE]

\* TranscriptPage: getVideoById succeeded and the manager is mounted; the
\* page passes a reload as onUpdate, the prop itself is optional
TmOpen(c, id, onUpdate) ==
  /\ ~tm.open
  /\ ~ef.open
  /\ OwnVideoRows(c, id) # {}
  /\ tm' = TmMounted(c, VideoRow(id), onUpdate)
  /\ UNCHANGED <<ef, uf>>

\* the Edit button
TmEdit ==
  /\ tm.open
  /\ tm.mode = "view"
  /\ tm' = [tm EXCEPT !.mode = "edit"]
  /\ UNCHANGED <<ef, uf>>

\* a status button of the status editor
TmSetStatus(status) ==
  /\ tm.open
  /\ tm.mode = "edit"
  /\ tm' = [tm EXCEPT !.status = status]
  /\ UNCHANGED <<ef, uf>>

\* onChange of the textarea
TmType(text) ==
  /\ tm.open
  /\ tm.mode = "edit"
  /\ tm' = [tm EXCEPT !.transcriptText = text]
  /\ UNCHANGED <<ef, uf>>

\* handleCancel
TmCancel ==
  /\ tm.open
  /\ tm.mode = "edit"
  /\ tm' = [tm EXCEPT
              !.transcriptText = GetTranscriptText(tm.video.transcript),
              !.status = tm.video.status,
              !.mode = "view",
              !.errors = ""]
  /\ UNCHANGED <<ef, uf>>

\* hasChanges of TranscriptManager
TmHasChanges ==
  \/ tm.status # tm.video.status
  \/ GetTranscriptText(tm.transcript) # tm.transcriptText

\* the Save button is rendered in edit mode; disabled={!hasChanges()}
TmSaveEnabled == tm.open /\ tm.mode = "edit" /\ TmHasChanges

\* handleSave with the call of updateVideoTranscript
TmSave(storeFails, throws) ==
  /\ TmSaveEnabled
  /\ IF throws
     THEN /\ tm' = [tm EXCEPT !.errors = "An unexpected error occurred"]
          /\ UNCHANGED storeVars
     ELSE /\ UpdateVideoTranscript(
               tm.user,
               [id |-> tm.video.id,
                transcript |-> ProcessedTranscript(tm.transcriptText),
                status |-> tm.status],
               storeFails)
          /\ tm' = IF res'.ok
                   THEN [tm EXCEPT
                           !.transcript =
                             ProcessedTranscript(tm.transcriptText),
                           !.mode = "view",
                           !.errors = "",
                           !.reloading = tm.onUpdate]
                   ELSE [tm EXCEPT !.errors = res'.error]
  /\ UNCHANGED <<ef, uf>>

\* window.location.reload() takes effect: the page is loaded again
TmReload ==
  /\ tm.open
  /\ tm.reloading
  /\ tm' = IF OwnVideoRows(tm.user, tm.video.id) # {}
           THEN TmMounted(tm.user, VideoRow(tm.video.id), tm.onUpdate)
           ELSE NoForm
  /\ UNCHANGED <<ef, uf>>

\* ---------------------------------------------------------- VideoEditForm
\* useState initialiser of formData, and the Reset button
EfFormData(video) ==
  [id |-> video.id, project_id |-> video.project_id,
   storage_path |-> video.storage_path, status |-> video.status,
   transcript |-> video.transcript]

EfOpen(c, id) ==
  /\ ~tm.open
  /\ ~ef.open
  /\ OwnVideoRows(c, id) # {}
  /\ ef' = [open |-> TRUE, user |-> c, video |-> VideoRow(id),
            formData |-> EfFormData(VideoRow(id)), errors |-> ""]
  /\ UNCHANGED <<tm, uf>>

PathRequired == "Storage path is required"

\* updateFormData: sets the field and clears the error of that field; only
\* the storage path has one
EfUpdate(field, value) ==
  /\ ef.open
  /\ ef' = [ef EXCEPT
              !.formData[field] = value,
              !.errors = IF field = "storage_path" /\ @ = PathRequired
                         THEN "" ELSE @]
  /\ UNCHANGED <<tm, uf>>

\* onChange of the transcript textarea: empty after trim is null, a text
\* that is no JSON is stored as typed
EfTranscript(text) == IF Trim(text) = "" THEN Null ELSE text

\* hasChanges of VideoEditForm; JSON.stringify is injective on null and
\* strings
EfHasChanges ==
  \/ ef.formData.storage_path # ef.video.storage_path
  \/ ef.formData.status # ef.video.status
  \/ ef.formData.transcript # ef.video.transcript

EfSaveEnabled == ef.open /\ EfHasChanges

\* "Reset to Original Values", rendered while hasChanges()
EfReset ==
  /\ ef.open
  /\ EfHasChanges
  /\ ef' = [ef EXCEPT !.formData = EfFormData(ef.video)]
  /\ UNCHANGED <<tm, uf>>

\* handleSubmit: a blank storage path is rejected by the form, otherwise
\* updateVideo is called and success leaves the page
EfSubmit(storeFails) ==
  /\ EfSaveEnabled
  /\ IF Trim(ef.formData.storage_path) = ""
     THEN /\ ef' = [ef EXCEPT !.errors = PathRequired]
          /\ UNCHANGED storeVars
     ELSE /\ UpdateVideo(ef.user, ef.formData, storeFails)
          /\ ef' = IF res'.ok THEN NoForm
                   ELSE [ef EXCEPT !.errors = res'.error]
  /\ UNCHANGED <<tm, uf>>

\* the transcript page and the edit page of the one video of user u1
InitForms == InitStore

NextForms ==
  \/ projects = {} /\ CreateProject("u1", "t1", FALSE)
       /\ UNCHANGED nonStore
  \/ videos = {} /\ CreateVideo("u1", NewVideo(1, "a", Undefined), FALSE)
       /\ UNCHANGED nonStore
  \/ \E id \in VideoIds : \E onUpdate \in BOOLEAN :
       TmOpen("u1", id, onUpdate) /\ UNCHANGED <<syncVars, storeVars>>
  \/ TmEdit /\ UNCHANGED <<syncVars, storeVars>>
  \/ \E st \in StatusValues :
       TmSetStatus(st) /\ UNCHANGED <<syncVars, storeVars>>
  \/ \E text \in FormTexts :
       TmType(text) /\ UNCHANGED <<syncVars, storeVars>>
  \/ TmCancel /\ UNCHANGED <<syncVars, storeVars>>
  \/ \E f \in BOOLEAN : \E t \in BOOLEAN :
       ~(f /\ t) /\ TmSave(f, t) /\ UNCHANGED syncVars
  \/ TmReload /\ UNCHANGED <<syncVars, storeVars>>
  \/ \E id \in VideoIds :
       EfOpen("u1", id) /\ UNCHANGED <<syncVars, storeVars>>
  \/ \E path \in {"a", "b", ""} :
       EfUpdate("storage_path", path) /\ UNCHANGED <<syncVars, storeVars>>
  \/ \E st \in StatusValues :
       EfUpdate("status", st) /\ UNCHANGED <<syncVars, storeVars>>
  \/ \E text \in FormTexts :
       EfUpdate("transcript", EfTranscript(text))
       /\ UNCHANGED <<syncVars, storeVars>>
  \/ EfReset /\ UNCHANGED <<syncVars, storeVars>>
  \/ \E f \in BOOLEAN : EfSubmit(f) /\ UNCHANGED syncVars

SpecForms == InitForms /\ [][NextForms]_vars

\* ------------------------------------------------------------------ claims
Matches(ws, t) == {i \in 1..Len(ws) : ws[i].start <= t /\ t <= ws[i].end}

ScenarioA == <<[start |-> 13, end |-> 18], [start |-> 18, end |-> 21]>>

\* C1: every recomputation over a non-empty sorted word list yields -1
\* exactly when no word contains currentTime, and otherwise the smallest
\* index whose word contains it (words 1.3-1.8 and 1.8-2.1, in tenths:
\* 1.5 gives 0, 2.0 gives 1, 5.0 gives -1)
C1_FirstMatch ==
  /\ last.op = "recompute" =>
       /\ Len(last.ws) > 0
       /\ SortedByStart(last.ws)
       /\ (currentWordIndex = -1) <=> (Matches(last.ws, last.t) = {})
       /\ currentWordIndex # -1 =>
            /\ currentWordIndex + 1 \in Matches(last.ws, last.t)
            /\ \A j \in Matches(last.ws, last.t) : currentWordIndex + 1 <= j
  /\ FindIndex(ScenarioA, 15) = 0
  /\ FindIndex(ScenarioA, 20) = 1
  /\ FindIndex(ScenarioA, 50) = -1

C1_Witness ==
  /\ last.op = "recompute"
  /\ Cardinality(Matches(last.ws, last.t)) >= 2
  /\ currentWordIndex = 0

\* C2: with an empty word list currentWordIndex is -1, whatever time
\* updates and seeks have happened
C2_EmptyNone == Len(words) = 0 => currentWordIndex = -1

C2_Witness ==
  /\ Len(words) = 0
  /\ last.op = "timeUpdate"
  /\ currentTime # 0
  /\ currentWordIndex = -1

\* C3: a click on word w passes exactly w.start to onWordClick, and with
\* the video element mounted the video position and the container's
\* currentTime both become w.start
C3_ClickSeeksToStart ==
  last.op = "wordClick" =>
    /\ last.arg = last.ws[last.t].start
    /\ ~playerError =>
         /\ videoTime = last.ws[last.t].start
         /\ currentTime = last.ws[last.t].start

C3_Witness ==
  /\ last.op = "wordClick"
  /\ ~playerError
  /\ last.t = 2
  /\ last.ws[2].start > 0
  /\ videoTime = last.ws[2].start
  /\ currentWordIndex = 0

\* C4: a seek triggered by a word click leaves the play/pause state as it
\* was before the click
C4_SeekKeepsPlayState == last.op = "wordClick" => paused = last.wasPaused

C4_Witness ==
  /\ last.op = "wordClick"
  /\ ~playerError
  /\ ~paused
  /\ videoTime = last.arg
  /\ last.arg > 0

\* C5: a notification cancels the pending timer before scheduling its own,
\* so of the notifications that arrive within one debounce window at most
\* one leads to a recomputation: two recomputations never stem from
\* notifications less than DebounceMs apart
C5_Debounce ==
  /\ Cardinality(timers) <= 1
  /\ last.op = "recompute" => last.arg >= DebounceMs

C5_Witness ==
  /\ last.op = "recompute"
  /\ last.merged
  /\ timers = {}

C7_NoMatchNoChange ==
  [][\A pl \in WellFormedPayloads :
       (/\ res'.op = "webhook"
        /\ \A v \in videos : ~MatchesRequest(v, pl.rid)
        /\ \E f \in BOOLEAN : Webhook(pl, f))
       => /\ videos' = videos
          /\ projects' = projects
          /\ res'.status = 200]_vars

C7_Witness ==
  /\ res.op = "webhook"
  /\ res.status = 200
  /\ res.rid \in RequestIds \cup {ForgedId}
  /\ \E v \in videos : v.deepgram_request_id # NullId
  /\ \A v \in videos :
       ~MatchesRequest(v, res.rid) /\ v.status = "transcribing"

\* C8 as stated: every malformed webhook payload (null, not an object, or
\* lacking metadata, results, channels[0] or alternatives[0]) gets the
\* response 500 and modifies no video record
C8_MalformedGets500 ==
  [][\A pl \in MalformedPayloads :
       (res'.op = "webhook" /\ \E f \in BOOLEAN : Webhook(pl, f))
       => res'.status = 500 /\ videos' = videos]_vars

CrudOps ==
  {"getProjects", "getProject", "updateProject", "deleteProject",
   "createVideo", "getVideosByProject", "getAllVideos", "getVideoById",
   "updateVideo", "updateVideoTranscript", "deleteVideo"}

OwnerIn(ps, pid) ==
  IF \E p \in ps : p.id = pid
  THEN (CHOOSE p \in ps : p.id = pid).user_id
  ELSE NoUser

IsProjectRow(x) == "user_id" \in DOMAIN x

\* C10: a record-store action performed as user u returns, modifies and
\* deletes no project or video owned by another user, and leaves no new
\* or moved video in a project that u does not own
C10_OwnerScoped ==
  [][\A u \in Users :
       (res'.op \in CrudOps /\ res'.caller = u)
       => /\ \A p \in projects : p.user_id # u => p \in projects'
          /\ \A v \in videos : Owner(v.project_id) # u => v \in videos'
          /\ \A x \in res'.ret :
               IF IsProjectRow(x) THEN x.user_id = u
               ELSE Owner(x.project_id) = u
          /\ \A w \in videos' :
               w \notin videos => OwnerIn(projects', w.project_id) = u]_vars

C10_Witness ==
  /\ res.op = "updateVideo"
  /\ res.caller = "u1"
  /\ ~res.ok
  /\ res.error = "Target project not found or access denied"
  /\ \E p \in projects : p.user_id = "u2"
  /\ \E v \in videos : Owner(v.project_id) = "u1"

\* an id of valid form that no record ever carries
UnusedId == MaxProjects + MaxVideos + 1

\* every failure message of the six actions on one project or video
TargetErrors ==
  {"Authentication required", "validation", "Invalid project ID",
   "Project title is required", "Project not found",
   "Failed to update project", "Failed to delete project",
   "Video not found or access denied",
   "Target project not found or access denied",
   "Failed to update video", "Failed to delete video"}

\* the call of op by c on the record id, with the store working, can
\* return r
Returns(op, c, id, r) ==
  CASE op = "getProject" ->
         ENABLED (GetProject(c, id, FALSE) /\ res' = r)
    [] op = "updateProject" ->
         ENABLED (UpdateProject(c, id, "t2", FALSE) /\ res' = r)
    [] op = "deleteProject" ->
         ENABLED (DeleteProject(c, id, FALSE) /\ res' = r)
    [] op = "getVideoById" ->
         ENABLED (GetVideoById(c, id, FALSE) /\ res' = r)
    [] op = "updateVideo" ->
         ENABLED (UpdateVideo(c, [NoUpdate(id) EXCEPT !.status = "error"],
                              FALSE) /\ res' = r)
    [] op = "deleteVideo" ->
         ENABLED (DeleteVideo(c, id, FALSE, FALSE) /\ res' = r)

ProjectTargetOps == {"getProject", "updateProject", "deleteProject"}

VideoTargetOps == {"getVideoById", "updateVideo", "deleteVideo"}

\* the record id exists and belongs to a user other than c
Foreign(op, c, id) ==
  IF op \in ProjectTargetOps
  THEN \E p \in projects : p.id = id /\ p.user_id # c
  ELSE \E v \in videos : v.id = id /\ Owner(v.project_id) # c

\* C11: for getProject, updateProject, deleteProject, getVideoById,
\* updateVideo and deleteVideo, the call on a record of another user
\* returns a failure result, the same one as the call on an id that no
\* record carries
C11_NoExistenceLeak ==
  \A op \in ProjectTargetOps \cup VideoTargetOps :
    \A c \in Users : \A id \in ProjectIds \cup VideoIds :
      Foreign(op, c, id)
      => \E e \in TargetErrors :
           /\ Returns(op, c, id, Fail(op, c, e))
           /\ Returns(op, c, UnusedId, Fail(op, c, e))

\* the same for the five actions that select the record before acting
C11_SelectingActions ==
  \A op \in (ProjectTargetOps \cup VideoTargetOps) \ {"deleteProject"} :
    \A c \in Users : \A id \in ProjectIds \cup VideoIds :
      Foreign(op, c, id)
      => \E e \in TargetErrors :
           /\ Returns(op, c, id, Fail(op, c, e))
           /\ Returns(op, c, UnusedId, Fail(op, c, e))

\* deleteProject on a project of another user reports success
C11_DeleteReportsSuccess ==
  \A c \in Users : \A id \in ProjectIds :
    Foreign("deleteProject", c, id)
    => /\ Returns("deleteProject", c, id,
                  Result("deleteProject", c, TRUE, "", {}))
       /\ Returns("deleteProject", c, UnusedId,
                  Result("deleteProject", c, TRUE, "", {}))

\* neither the record store nor the object storage is modified by the step
Unmodified ==
  projects' = projects /\ videos' = videos /\ storage' = storage

Rejected == ~res'.ok /\ Unmodified

\* the file of a form is too large or of a type that is not accepted
BadFile(file) == file.size > MaxSize \/ file.type \notin AllowedTypes

\* a form of uploadVideoFile that fails validation
InvalidUploadForm(d) ==
  ~d.file.present \/ d.pid = NullId \/ BadFile(d.file)

\* createVideoWithFile uploads the file of the form
WithFile(d) == d.file.present /\ d.file.size > 0

\* a form of createVideoWithFile that fails validation
InvalidVideoForm(d) ==
  \/ WithFile(d) /\ BadFile(d.file)
  \/ ~WithFile(d) /\ ~ValidPath(d.path)
  \/ ~IsUuid(d.pid)
  \/ d.status \notin StatusValues \cup {Undefined, ""}

InvalidCreateVideo(d) ==
  ~IsUuid(d.project_id) \/ ~ValidPath(d.storage_path)
  \/ d.status \notin StatusValues \cup {Undefined}

InvalidUpdateVideo(d) ==
  \/ ~IsUuid(d.id) \/ ~IsUuid(d.project_id)
  \/ d.storage_path # Undefined /\ ~ValidPath(d.storage_path)
  \/ d.status \notin StatusValues \cup {Undefined}

InvalidTranscriptUpdate(d) ==
  ~IsUuid(d.id) \/ d.status \notin StatusValues \cup {Undefined}

\* the calls with invalid input of the actions other than
\* createVideoWithFile are rejected
RecordInputsRejected ==
  /\ \A c \in Callers : \A t \in {""} :
       (res'.op = "createProject" /\ CreateProject(c, t, FALSE))
       => Rejected
  /\ \A c \in Callers : \A id \in IdInputs : \A t \in {"t2", ""} :
       (res'.op = "updateProject" /\ (~IsUuid(id) \/ t = "")
        /\ UpdateProject(c, id, t, FALSE))
       => Rejected
  /\ \A c \in Callers : \A d \in CreateInputs :
       (res'.op = "createVideo" /\ InvalidCreateVideo(d)
        /\ CreateVideo(c, d, FALSE))
       => Rejected
  /\ \A c \in Callers : \A d \in UpdateInputs :
       (res'.op = "updateVideo" /\ InvalidUpdateVideo(d)
        /\ UpdateVideo(c, d, FALSE))
       => Rejected
  /\ \A c \in Callers : \A d \in TranscriptInputs :
       (res'.op = "updateVideoTranscript" /\ InvalidTranscriptUpdate(d)
        /\ UpdateVideoTranscript(c, d, FALSE))
       => Rejected
  /\ \A c \in Callers :
       (res'.op = "deleteVideo" /\ DeleteVideo(c, InvalidId, FALSE, FALSE))
       => Rejected
  /\ \A c \in Callers : \A d \in UploadForms :
       (res'.op = "uploadVideoFile" /\ InvalidUploadForm(d)
        /\ UploadVideoFile(c, d.file, d.pid, FALSE))
       => Rejected

\* C12: a call of createProject, updateProject, createVideo, updateVideo,
\* updateVideoTranscript, deleteVideo, uploadVideoFile or
\* createVideoWithFile with input that fails validation returns a failure
\* and leaves the record store and the object storage as they were
C12_InvalidInputRejected ==
  [][/\ RecordInputsRejected
     /\ \A c \in Callers : \A d \in VideoForms :
          (res'.op = "createVideoWithFile" /\ InvalidVideoForm(d)
           /\ CreateVideoWithFile(c, d.file, d.pid, d.status, d.path,
                                  FALSE, FALSE))
          => Rejected]_vars

\* the same, createVideoWithFile being called with an invalid status or
\* path only when it has no file to upload
C12_RejectedBeforeUpload ==
  [][/\ RecordInputsRejected
     /\ \A c \in Callers : \A d \in VideoForms :
          (res'.op = "createVideoWithFile" /\ InvalidVideoForm(d)
           /\ (WithFile(d) => BadFile(d.file) \/ ~IsUuid(d.pid))
           /\ CreateVideoWithFile(c, d.file, d.pid, d.status, d.path,
                                  FALSE, FALSE))
          => Rejected]_vars

\* C13: when deleteVideo is called by the owner, the record is deleted and
\* the removal of the file fails, deleteVideo returns success, the record
\* is gone, the file is still in storage and storage.remove was called once
C13_CleanupFailureTolerated ==
  [][\A c \in Users : \A id \in VideoIds :
       (/\ res'.op = "deleteVideo"
        /\ OwnVideoRows(c, id) # {}
        /\ DeleteVideo(c, id, FALSE, TRUE))
       => /\ res'.ok
          /\ \A v \in videos' : v.id # id
          /\ storage' = storage
          /\ res'.removes = 1]_vars

C13_Witness ==
  /\ res.op = "deleteVideo"
  /\ res.ok
  /\ res.removes = 1
  /\ videos = {}
  /\ ids.v = 1
  /\ \E path \in storage : path # "a"

\* the exported actions of the projects and videos modules
ServerActions ==
  CrudOps \cup {"createProject", "transcribeVideo", "getVideoPublicUrl",
                "uploadVideoFile", "createVideoWithFile", "deleteVideoFile"}

\* C14: every server action returns a result; a call by an unauthenticated
\* caller returns a failure, and a failure carries an error string
C14_FailuresReturned ==
  res.op \in ServerActions
  => /\ ~res.void
     /\ ~Authenticated(res.caller) => ~res.ok
     /\ ~res.ok => res.error # ""

\* the same for the actions other than transcribeVideo
C14_ResultReturned ==
  res.op \in ServerActions \ {"transcribeVideo"}
  => /\ ~res.void
     /\ ~Authenticated(res.caller) => ~res.ok
     /\ ~res.ok => res.error # ""

\* the calls of the videos module: its exported actions, updateTranscript
\* being called by the webhook route, which has no user session
VideoModuleCalls ==
  (ServerActions
     \ {"createProject", "getProjects", "getProject", "updateProject",
        "deleteProject"})
  \cup {"webhook"}

\* C15: a call of an action of the videos module without an authenticated
\* user changes no video record and no storage object
C15_UnauthenticatedNoMutation ==
  [][(res'.op \in VideoModuleCalls /\ res'.caller = NoUser)
     => videos' = videos /\ storage' = storage]_vars

\* the same for the actions other than updateTranscript
C15_CheckedActions ==
  [][(res'.op \in VideoModuleCalls \ {"webhook"} /\ res'.caller = NoUser)
     => videos' = videos /\ storage' = storage]_vars

\* C16: when the transcript data is not an array or is an empty array, the
\* component has zero words, currentWordIndex is -1, the render is the
\* "No interactive transcript available" card, no recomputation is pending
\* and the last step raised no exception, whatever time updates happened
C16_NoWordsFallback ==
  (transcriptData.tag # "array" \/ Len(transcriptData.arr) = 0) =>
    /\ Len(words) = 0
    /\ currentWordIndex = -1
    /\ Render(words) = "No interactive transcript available"
    /\ timers = {}
    /\ ~last.threw

C16_Witness ==
  /\ transcriptData \in NonArrayValues
  /\ last.op = "timeUpdate"
  /\ currentTime > 0
  /\ Render(words) = "No interactive transcript available"

\* C17 as stated: a non-empty array with an element that is no Word makes
\* the component render the "No interactive transcript available" card, and
\* neither the render nor the lookup throws
C17_MalformedDegrades ==
  (transcriptData.tag = "array" /\ transcriptData.arr \in MalformedLists) =>
    /\ Render(words) = "No interactive transcript available"
    /\ ~last.threw

\* what the code does instead: the array is used as it is, the render is
\* the transcript or a TypeError, never the fallback card
C17_MalformedUsedAsIs ==
  (transcriptData.tag = "array" /\ transcriptData.arr \in MalformedLists) =>
    /\ words = transcriptData.arr
    /\ Render(words) \in {"transcript", "throws"}
    /\ (Render(words) = "throws") <=>
         (\E i \in 1..Len(words) : IsNullElement(words[i]))

\* a lookup that reaches a null element throws
C17_LookupThrows ==
  /\ last.op = "recompute"
  /\ last.threw
  /\ IsNullElement(last.ws[1])

\* C18: every recomputation runs while the component is mounted and
\* against the current word list: a timer pending at unmount or at the
\* replacement of the list never fires
C18_NoStaleRecompute ==
  [][last'.op = "recompute" => (mounted /\ last'.ws = words)]_vars

C18_Witness ==
  /\ last.op = "unmount"
  /\ last.arg > 0
  /\ ~mounted
  /\ timers = {}

\* the same at a replacement: the pending timer of the old list is gone
C18_ReplaceWitness ==
  /\ last.op = "replace"
  /\ last.arg > 0
  /\ \A T \in timers : T.ws = words

\* indices the lookup can return for a list
IndicesOf(ws) == {-1} \cup {FindIndex(ws, t) : t \in Times}

\* C19 as stated: at the replacement of the word list by a non-empty list
\* currentWordIndex is rebuilt: it is -1 or an index computed from the new
\* list
C19_RebuiltAtReplacement ==
  [][(last'.op = "replace" /\ Len(words') > 0)
       => currentWordIndex' \in IndicesOf(words')]_vars

\* what the code does instead: with highlighting on, the replacement keeps
\* the old index and schedules a recomputation against the new list
C19_KeptUntilRecompute ==
  [][(last'.op = "replace" /\ Len(words') > 0 /\ highlightCurrentWord)
       => /\ currentWordIndex' = currentWordIndex
          /\ \E T \in timers' : T.ws = words' /\ T.age = 0]_vars

\* a replaced list shorter than the index kept from the old one
C19_StaleIndex ==
  /\ last.op = "replace"
  /\ Len(words) > 0
  /\ currentWordIndex >= Len(words)

ColorBand(color) ==
  CASE color = "text-red-600" -> 0
    [] color = "text-yellow-600" -> 1
    [] color = "text-green-600" -> 2

LabelBand(label) ==
  CASE label = "Low" -> 0
    [] label = "Medium" -> 1
    [] label = "High" -> 2

Bands == 0..2

\* C20 as stated: both classifiers are monotonic (a higher confidence than
\* the one of the rendered badge never gets a lower band) and each returns
\* each of the three bands for some confidence
C20_ThreeBands ==
  badge # NoBadge =>
    /\ \A c \in Confidences : c >= badge.confidence =>
         /\ ColorBand(GetConfidenceColor(c)) >= ColorBand(badge.color)
         /\ LabelBand(GetConfidenceBadge(c)) >= LabelBand(badge.label)
    /\ \A b \in Bands :
         /\ \E c \in Confidences : ColorBand(GetConfidenceColor(c)) = b
         /\ \E c \in Confidences : LabelBand(GetConfidenceBadge(c)) = b

\* what holds: both classifiers are monotonic, getConfidenceBadge has three
\* bands, getConfidenceColor has two: no confidence is yellow
C20_TwoColorBands ==
  badge # NoBadge =>
    /\ \A c \in Confidences : c >= badge.confidence =>
         /\ ColorBand(GetConfidenceColor(c)) >= ColorBand(badge.color)
         /\ LabelBand(GetConfidenceBadge(c)) >= LabelBand(badge.label)
    /\ \A b \in Bands :
         \E c \in Confidences : LabelBand(GetConfidenceBadge(c)) = b
    /\ badge.color \in {"text-red-600", "text-green-600"}
    /\ (badge.label = "Medium") => (badge.color = "text-green-600")

\* C23 as stated: after a click on word i of a list sorted by start, with
\* the video element mounted and highlighting on, the recomputation that
\* the click leaves pending yields i (and when none is pending the index
\* is already i)
C23_ClickHighlightsClicked ==
  (last.op = "wordClick" /\ ~playerError /\ highlightCurrentWord) =>
    /\ SortedByStart(last.ws)
    /\ \A T \in timers : FindIndex(T.ws, T.t) = last.t - 1
    /\ timers = {} => currentWordIndex = last.t - 1

\* what the code does: the pending recomputation looks up the start of the
\* clicked word and yields the first word whose inclusive range holds it,
\* which is the clicked word only if no earlier word ends at or after it
C23_ClickHighlightsFirstMatch ==
  (last.op = "wordClick" /\ ~playerError /\ highlightCurrentWord) =>
    \A T \in timers :
      /\ T.t = last.ws[last.t].start
      /\ T.ws = last.ws
      /\ FindIndex(T.ws, T.t) <= last.t - 1
      /\ (FindIndex(T.ws, T.t) = last.t - 1) <=>
           (\A j \in 1..(last.t - 1) : last.ws[j].end < T.t)

\* a click on the second word, whose start is the end of the first
C23_AdjacentWords ==
  /\ last.op = "wordClick"
  /\ ~playerError
  /\ highlightCurrentWord
  /\ last.t = 2
  /\ last.ws[1].end = last.ws[2].start
  /\ \E T \in timers : FindIndex(T.ws, T.t) = 0

\* C24 as stated: whatever the interleaving of transcribeVideo with the
\* webhook for its request id, once both are done the video is
\* "transcribed" with the delivered words. Checked at the return of
\* transcribeVideo (its update applied without store error) right after
\* the webhook for the same request id was answered with 200
C24_CallbackAppliedAnyOrder ==
  [][(/\ res'.op = "transcribeVideo"
      /\ tv.pc = "posted"
      /\ tv.rid \in RequestIds
      /\ res.op = "webhook"
      /\ res.status = 200
      /\ res.rid = tv.rid
      /\ TvPersist(FALSE))
     => \A w \in videos' :
          w.storage_path = tv.path =>
            /\ w.status = "transcribed"
            /\ w.transcript_data_full \in WordArrays]_vars

\* what the code does: a webhook handled before the request id is
\* persisted changes nothing, and the video ends up "transcribing"
C24_EarlyCallbackLost ==
  [][(/\ res'.op = "transcribeVideo"
      /\ tv.pc = "posted"
      /\ tv.rid \in RequestIds
      /\ res.op = "webhook"
      /\ res.rid = tv.rid
      /\ TvPersist(FALSE))
     => \A w \in videos' :
          w.storage_path = tv.path =>
            /\ w.status = "transcribing"
            /\ w.deepgram_request_id = tv.rid]_vars

\* C25 as stated: a video that transcribeVideo sets to "transcribing" has
\* a deepgram_request_id issued by the provider
C25_TranscribingHasRequestId ==
  [][(res'.op = "transcribeVideo" /\ tv.pc = "posted")
     => \A w \in videos' :
          (w \notin videos /\ w.status = "transcribing")
            => w.deepgram_request_id \in 1..ids.r]_vars

\* what holds: with a request id in the response the updated video
\* carries it
C25_IssuedIdPersisted ==
  [][(res'.op = "transcribeVideo" /\ tv.pc = "posted"
      /\ tv.rid \in RequestIds)
     => \A w \in videos' :
          (w \notin videos /\ w.status = "transcribing")
            => w.deepgram_request_id = tv.rid]_vars

\* a video marked "transcribing" without any request id
C25_NoRequestId ==
  /\ res.op = "transcribeVideo"
  /\ res.rid = UndefinedId
  /\ \E v \in videos :
       v.status = "transcribing" /\ v.deepgram_request_id = NullId

\* C26 as stated: when the store reports an error for the update of
\* updateTranscript, the webhook handler does not respond 200
C26_FailureNotAcknowledged ==
  [][\A pl \in Payloads :
       (res'.op = "webhook" /\ ~ParseThrows(pl) /\ Webhook(pl, TRUE))
       => res'.status # 200]_vars

\* what the code does: every payload that parses gets 200, whatever
\* updateTranscript returned
C26_ParsedGets200 ==
  [][\A pl \in Payloads : \A f \in BOOLEAN :
       (res'.op = "webhook" /\ ~ParseThrows(pl) /\ Webhook(pl, f))
       => res'.status = 200]_vars

\* C29: a webhook payload applied to the store that its own application
\* left changes nothing: the update is idempotent
C29_WebhookIdempotent ==
  [][\A pl \in Payloads :
       (res'.op = "webhook" /\ ~ParseThrows(pl) /\ Webhook(pl, FALSE))
       => UpdateTranscriptRows(videos', ExtractRequestId(pl),
                               ExtractText(pl), ExtractWords(pl))
            = videos']_vars

C29_Witness ==
  /\ res.op = "webhook"
  /\ res.status = 200
  /\ res.rid \in RequestIds
  /\ tv.pc = "idle"
  /\ \E v \in videos :
       /\ MatchesRequest(v, res.rid)
       /\ v.status = "transcribed"
       /\ UpdateTranscriptRows({v}, res.rid, "T1", "W1") = {v}

\* the storage object at path was uploaded into a project of another user
ForeignObject(c, path) ==
  \E pid \in ProjectIds : \E n \in 1..(MaxUploads + 1) :
    /\ path = UploadPath(pid, n)
    /\ Owner(pid) \in Users \ {c}

\* the video with this storage path belongs to a project of another user
ForeignVideoPath(c, path) ==
  \E v \in videos :
    v.storage_path = path /\ Owner(v.project_id) \in Users \ {c}

\* C27 as stated: an authenticated user who passes the storage path of
\* another user's video to getVideoPublicUrl, deleteVideoFile or
\* transcribeVideo gets no URL, removes no object and changes no video
C27_OwnObjectsOnly ==
  [][\A c \in Users :
       /\ \A path \in storage :
            ForeignObject(c, path) =>
              /\ (res'.op = "getVideoPublicUrl" /\ GetVideoPublicUrl(c, path))
                   => ~res'.ok
              /\ (/\ res'.op = "deleteVideoFile"
                  /\ \E g \in BOOLEAN : DeleteVideoFileCall(c, path, g))
                   => path \in storage'
       /\ (/\ res'.op = "transcribeVideo"
           /\ tv.pc = "posted"
           /\ tv.user = c
           /\ ForeignVideoPath(c, tv.path))
            => videos' = videos]_vars

\* C27 for transcribeVideo alone: the call of a user on the storage path
\* of another user's video leaves that video as it was
C27_TranscribeOwnVideos ==
  [][(/\ res'.op = "transcribeVideo"
      /\ tv.pc = "posted"
      /\ tv.user \in Users
      /\ ForeignVideoPath(tv.user, tv.path))
     => videos' = videos]_vars

\* what the three actions check: the caller is authenticated
C27_AuthenticatedOnly ==
  [][(res'.op \in {"getVideoPublicUrl", "deleteVideoFile"}
      /\ res'.caller = NoUser)
     => ~res'.ok /\ storage' = storage]_vars

\* C30: uploadVideoFile adds an object to storage only when a file and a
\* project id are given, the file is at most 100 MB and of an allowed
\* type, the caller is authenticated and owns the project; otherwise
\* storage is unchanged and the result is a failure
C30_UploadOnlyWhenValid ==
  [][res'.op = "uploadVideoFile" =>
     \A c \in {res'.caller} : \A d \in UploadForms : \A f \in BOOLEAN :
       UploadVideoFile(c, d.file, d.pid, f)
       => LET allowed ==
                /\ d.file.present
                /\ d.pid # NullId
                /\ d.file.size <= MaxSize
                /\ d.file.type \in AllowedTypes
                /\ Authenticated(c)
                /\ Owner(d.pid) = c
          IN /\ storage' # storage => allowed /\ res'.ok
             /\ ~allowed => storage' = storage /\ ~res'.ok
             /\ storage \subseteq storage']_vars

C30_Witness ==
  /\ res.op = "uploadVideoFile"
  /\ res.ok
  /\ res.caller \in Users
  /\ \E x \in res.ret : x.storagePath \in storage

\* a rejected upload: the file is too large, nothing is stored
C30_RejectedWitness ==
  /\ res.op = "uploadVideoFile"
  /\ ~res.ok
  /\ res.error = "File size must be less than 100MB"
  /\ storage = {}

\* the component is mounted over a non-empty word list with highlighting
Highlighting == mounted /\ highlightCurrentWord /\ Len(words) > 0

\* no time update, seek or replacement arrives any more
Quiet ==
  [][currentTime' = currentTime /\ transcriptData' = transcriptData]_vars

\* C28: with a non-empty word list and highlighting on, once time updates
\* stop arriving, currentWordIndex eventually is the first-match lookup of
\* the last delivered currentTime, and stays so
C28_EventuallyConsistent ==
  (<>[]Highlighting /\ <>Quiet) =>
    <>[](currentWordIndex = FindIndex(words, currentTime))

\* a recomputation has brought the index to the word at the last time
\* delivered, with no timer pending
C28_Witness ==
  /\ Highlighting
  /\ last.op = "recompute"
  /\ timers = {}
  /\ currentTime > 0
  /\ currentWordIndex >= 0
  /\ currentWordIndex = FindIndex(words, currentTime)

\* C22 as stated: in the file-upload flow transcribeVideo is called only
\* after the upload succeeded and createVideo returned success
C22_TranscribeAfterSuccess ==
  uf.called => (uf.path \in storage /\ uf.created)

\* what the code does: transcribeVideo is called whenever createVideo
\* returned, with success or with failure, and not when the upload failed
\* or createVideo threw
C22_TranscribeAfterReturn ==
  [][/\ (uf'.called /\ ~uf.called) => uf.pc = "created"
     /\ (uf.pc = "created" /\ uf' # uf) => uf'.called]_vars

\* transcribeVideo was called for an upload without a video record
C22_TranscribedWithoutRecord ==
  /\ uf.called
  /\ ~uf.created
  /\ \A v \in videos : v.storage_path # uf.path

\* the values last saved for the video of a form: its row in the store
SavedRow(form) == VideoRow(form.video.id)

\* C21 as stated: in TranscriptManager (edit mode) and VideoEditForm, when
\* the edited status and transcript equal the values last saved, the Save
\* button is disabled
C21_SaveOnlyWhenChanged ==
  /\ (/\ tm.open
      /\ tm.mode = "edit"
      /\ tm.status = SavedRow(tm).status
      /\ tm.transcriptText = GetTranscriptText(SavedRow(tm).transcript))
     => ~TmSaveEnabled
  /\ (/\ ef.open
      /\ ef.formData.storage_path = SavedRow(ef).storage_path
      /\ ef.formData.status = SavedRow(ef).status
      /\ ef.formData.transcript = SavedRow(ef).transcript)
     => ~EfSaveEnabled

\* what holds: Save is disabled when the edited values equal the video
\* prop the component was mounted with (and the transcript state); in
\* VideoEditForm the prop is the saved row as long as the form is open
C21_SaveOnlyWhenDifferentFromProp ==
  /\ (/\ tm.open
      /\ tm.mode = "edit"
      /\ tm.status = tm.video.status
      /\ tm.transcriptText = GetTranscriptText(tm.transcript))
     => ~TmSaveEnabled
  /\ ef.open => ef.video = SavedRow(ef)
  /\ (ef.open /\ ef.formData = EfFormData(ef.video)) => ~EfSaveEnabled

\* edit mode re-entered after a successful save of a new status, nothing
\* edited, Save enabled
C21_EnabledAfterSave ==
  /\ tm.open
  /\ tm.mode = "edit"
  /\ res.op = "updateVideoTranscript"
  /\ res.ok
  /\ tm.status = SavedRow(tm).status
  /\ tm.transcriptText = GetTranscriptText(SavedRow(tm).transcript)
  /\ TmSaveEnabled
====
